---- MODULE Spec2Model ----
(***************************************************************************)
(* The update actor of meilisearch-http                                    *)
(* (index_controller/update_actor/actor.rs): the inbox loop of             *)
(* UpdateActor::run, the payload capture and validation of handle_update,  *)
(* and the administrative handlers, together with the worker pool          *)
(* (tokio::task::spawn_blocking) and the update store they call.           *)
(***************************************************************************)
EXTENDS Integers, Sequences, FiniteSets, TLC

\* Number of requests callers put in the inbox in one behaviour.
MaxReqs == 3
\* Number of failures of the environment in one behaviour: a file operation,
\* a store call or a worker task that fails.
MaxFaults == 1

\* ------------------------------------------------------------------------
\* Values

Collections == {"c1", "c2"}

\* UpdateMeta kinds; the first two carry a payload (actor.rs:109).
PayloadMetas == {"DocumentsAddition", "DeleteDocuments"}
Metas == PayloadMetas \cup {"Settings"}

\* A payload byte is modelled as one JSON token: "s" a string literal,
\* "1" a number.
Tokens == {"[", "]", "{", "}", ":", ",", "s", "1"}

\* One item of the payload stream: PayloadData<D> = Result<D, Error>.
Chunk(bytes) == [ok |-> TRUE, bytes |-> bytes]
ChunkErr == [ok |-> FALSE, bytes |-> << >>]

\* The metas and payload streams callers send with an Update in the general
\* specification.
ValidStream == << Chunk(<<"[">>), Chunk(<<"1", "]">>) >>
BasicPayloads ==
    { <<"DocumentsAddition", ValidStream>>,
      <<"DocumentsAddition", << Chunk(<<"{", "s", ":", "1">>) >> >>,
      <<"DocumentsAddition", << Chunk(<<"[">>), ChunkErr, Chunk(<<"]">>) >> >>,
      <<"DeleteDocuments", << Chunk(<< >>) >> >>,
      <<"Settings", << >> >> }

\* Payload streams of the payload specification: every stream of up to three
\* chunks drawn from ChunkMenu.
ChunkMenu ==
    { ChunkErr, Chunk(<< >>), Chunk(<<"[">>), Chunk(<<"]">>),
      Chunk(<<"1", ",">>), Chunk(<<"{", "s", ":">>), Chunk(<<"1", "}">>) }
RichStreams ==
    { << >> } \cup { <<a>> : a \in ChunkMenu }
      \cup { <<a, b>> : a \in ChunkMenu, b \in ChunkMenu }
      \cup { <<a, b, c>> : a \in ChunkMenu, b \in ChunkMenu, c \in ChunkMenu }
RichPayloads == Metas \X RichStreams

\* UpdateMsg<D>: one record shape for the seven variants; rid stands for the
\* request's oneshot reply channel `ret`.  data: the chunks of the payload
\* stream not yet received; stream: the stream as the caller sends it.
Msg(rid, kind, uuid, meta, data, id) ==
    [rid |-> rid, kind |-> kind, uuid |-> uuid, meta |-> meta,
     data |-> data, id |-> id, stream |-> data]
\* The value of `msg` when recv() returned None, and before the first recv.
NoMsg == Msg(0, "None", "-", "-", << >>, 0)

\* Result<T> sent on a reply channel. by: the request whose handler made it.
Res(by, ok, kind, id, list) ==
    [by |-> by, ok |-> ok, kind |-> kind, id |-> id, list |-> list]
OkRes(by, kind, id, list) == Res(by, TRUE, kind, id, list)
ErrRes(by, kind, id) == Res(by, FALSE, kind, id, << >>)
Pending == Res(0, FALSE, "pending", 0, << >>)

\* ------------------------------------------------------------------------
\* JSON well-formedness (oxidized_json_checker::JsonChecker and
\* serde_json::from_reader read the same grammar: one JSON value)

\* The pushdown scan of one JSON value over tokens b[i..]: 0 when b is one
\* well-formed value, otherwise the 1-based position of the first token that
\* cannot continue a value (Len(b) + 1: input ended too early).
\* st: "value" a value must start; "first" a value or "]" (just after "[");
\* "key" a key or "}" (just after "{"); "key2" a key (after "," in an
\* object); "colon"; "after" a value has ended.  stk: open containers.
RECURSIVE ScanFrom(_, _, _, _)
ScanFrom(b, i, st, stk) ==
    IF i > Len(b)
    THEN IF st = "after" /\ stk = << >> THEN 0 ELSE i
    ELSE
      LET t == b[i]
          top == IF stk = << >> THEN "-" ELSE stk[Len(stk)]
          pop == SubSeq(stk, 1, Len(stk) - 1)
      IN  CASE st \in {"value", "first"} /\ t \in {"s", "1"} ->
                 ScanFrom(b, i + 1, "after", stk)
            [] st \in {"value", "first"} /\ t = "[" ->
                 ScanFrom(b, i + 1, "first", Append(stk, "A"))
            [] st \in {"value", "first"} /\ t = "{" ->
                 ScanFrom(b, i + 1, "key", Append(stk, "O"))
            [] st = "first" /\ t = "]" -> ScanFrom(b, i + 1, "after", pop)
            [] st = "key" /\ t = "}" -> ScanFrom(b, i + 1, "after", pop)
            [] st \in {"key", "key2"} /\ t = "s" ->
                 ScanFrom(b, i + 1, "colon", stk)
            [] st = "colon" /\ t = ":" -> ScanFrom(b, i + 1, "value", stk)
            [] st = "after" /\ top = "A" /\ t = "," ->
                 ScanFrom(b, i + 1, "value", stk)
            [] st = "after" /\ top = "A" /\ t = "]" ->
                 ScanFrom(b, i + 1, "after", pop)
            [] st = "after" /\ top = "O" /\ t = "," ->
                 ScanFrom(b, i + 1, "key2", stk)
            [] st = "after" /\ top = "O" /\ t = "}" ->
                 ScanFrom(b, i + 1, "after", pop)
            [] OTHER -> i
JsonError(b) == ScanFrom(b, 1, "value", << >>)

\* What a reader positioned at byte offset pos of a file still reads.
ReadFrom(content, pos) == SubSeq(content, pos + 1, Len(content))

\* Mutant: the seek leaves the handle where it is.
SeekStartStays(pos) == pos
\* file.seek(SeekFrom::Start(0)): the new position.
SeekStart(pos) == 0

\* copy(&mut checker, &mut sink()).is_err() || checker.finish().is_err(),
\* negated: the streaming check passes.  readOk: the reads of the file
\* succeed.
JsonCheckerOk(input, readOk) == readOk /\ JsonError(input) = 0

\* Mutant: the full parse rejects whatever it reads.
SerdeParseRejects(input, readOk) == [ok |-> FALSE, at |-> 0]
\* The position serde_json gives in its error for an input that is not one
\* JSON value: the token that cannot continue a value, and for an input
\* that ends too early ("EOF while parsing ...") the last token it read.
SerdeErrorAt(input) ==
    IF JsonError(input) > Len(input) THEN Len(input) ELSE JsonError(input)

\* serde_json::from_reader(file): ok when it parses, otherwise the position
\* its error reports.  A failed read is an error of category Io, which
\* serde reports at line 0, column 0.
SerdeParse(input, readOk) ==
    IF ~readOk THEN [ok |-> FALSE, at |-> 0]
    ELSE [ok |-> JsonError(input) = 0, at |-> SerdeErrorAt(input)]

\* Mutant: the error of the full parse is not propagated.
ValidateIgnoringParse(content, pos, seek1, read1, seek2, read2) ==
    IF ~seek1
    THEN [ok |-> FALSE, kind |-> "Io", at |-> 0, ran |-> <<"seek">>,
          failed |-> 1]
    ELSE IF JsonCheckerOk(ReadFrom(content, 0), read1)
    THEN [ok |-> TRUE, kind |-> "-", at |-> 0, ran |-> <<"seek", "check">>,
          failed |-> 0]
    ELSE IF ~seek2
    THEN [ok |-> FALSE, kind |-> "Io", at |-> 0,
          ran |-> <<"seek", "check", "seek">>,
          failed |-> (IF read1 THEN 0 ELSE 1) + 1]
    ELSE [ok |-> TRUE, kind |-> "-", at |-> 0,
          ran |-> <<"seek", "check", "seek", "parse">>,
          failed |-> (IF read1 THEN 0 ELSE 1) + (IF read2 THEN 0 ELSE 1)]

\* The body of the spawn_blocking closure of handle_update up to the
\* registration (actor.rs:147-162) for a blob with the given content, whose
\* handle is at offset pos.  seek1, read1, seek2, read2: whether the first
\* seek, the reads of the streaming check, the second seek and the reads of
\* the full parse succeed.  ran: the file operations performed, in order;
\* failed: how many of them failed.
Validate(content, pos, seek1, read1, seek2, read2) ==
    LET p1 == SeekStart(pos)
        full == Len(content)
        p2 == SeekStart(full)
        parse == SerdeParse(ReadFrom(content, p2), read2)
        f1 == IF read1 THEN 0 ELSE 1
        f2 == IF read2 THEN 0 ELSE 1
    IN  IF ~seek1
        THEN [ok |-> FALSE, kind |-> "Io", at |-> 0, ran |-> <<"seek">>,
              failed |-> 1]
        ELSE IF JsonCheckerOk(ReadFrom(content, p1), read1)
        THEN [ok |-> TRUE, kind |-> "-", at |-> 0, ran |-> <<"seek", "check">>,
              failed |-> 0]
        ELSE IF ~seek2
        THEN [ok |-> FALSE, kind |-> "Io", at |-> 0,
              ran |-> <<"seek", "check", "seek">>, failed |-> f1 + 1]
        ELSE IF parse.ok
        THEN [ok |-> TRUE, kind |-> "-", at |-> 0,
              ran |-> <<"seek", "check", "seek", "parse">>, failed |-> f1 + f2]
        ELSE [ok |-> FALSE, kind |-> "InvalidPayload", at |-> parse.at,
              ran |-> <<"seek", "check", "seek", "parse">>,
              failed |-> f1 + f2]

\* ------------------------------------------------------------------------
\* The update store (UpdateStore), as the actor uses it

\* The store of a collection: the next sequence id and the records held.
EmptyLog == [next |-> 1, recs |-> << >>]

\* register_update(meta, content, uuid): the record gets the collection's
\* next sequence id.
NextUpdateId(s, uuid) == s[uuid].next
RegisterUpdate(s, uuid, meta, content) ==
    [s EXCEPT ![uuid] =
        [next |-> @.next + 1,
         recs |-> Append(@.recs, [id |-> @.next, meta |-> meta,
                                  content |-> content])]]

\* list(uuid): the sequence ids of the records of the collection.
ListIds(s, uuid) == [i \in 1..Len(s[uuid].recs) |-> s[uuid].recs[i].id]

\* meta(uuid, id): whether the collection holds a record with this id.
HasUpdate(s, uuid, id) == \E i \in 1..Len(s[uuid].recs) : s[uuid].recs[i].id = id

\* delete_all(uuid): the records of the collection go, with their blobs.
DeleteAll(s, uuid) == [s EXCEPT ![uuid].recs = << >>]
BlobsOf(s, uuid) ==
    { s[uuid].recs[i].content : i \in 1..Len(s[uuid].recs) } \ {0}

\* ------------------------------------------------------------------------
\* State

VARIABLES
    inbox,      \* mpsc queue of UpdateMsg, in arrival order
    closed,     \* every Sender of the inbox has been dropped
    sent,       \* number of requests sent so far (the last rid given out)
    must_exit,  \* the shared AtomicBool
    pc,         \* where UpdateActor::run is: "recv", "check", "exited", or
                \* in a handler: "open", "chunk", "write", "flush", "remove",
                \* "await", "meta"
    msg,        \* the message recv() returned; msg.data: chunks not yet read
    file_len,   \* handle_update's file_len
    file_id,    \* handle_update's update_file_id (0: none)
    files,      \* update_files/: blob id -> content
    nextBlob,   \* the next fresh blob id (Uuid::new_v4)
    tasks,      \* worker pool: rid -> the spawn_blocking task of that request
    store,      \* the update store: collection -> EmptyLog-shaped record
    calls,      \* the calls made into the update store, in start order
    replies,    \* rid -> the values sent on that request's reply channel
    blobOf,     \* rid -> the blob id generated for that request (0: none)
    ret,        \* rid -> the request's reply channel: "open", "dropped" (the
                \* caller dropped its receiver), "lost" (a send on it failed)
    faults,     \* number of failures of the environment so far (file I/O,
                \* store errors, task panics)
    fsop,       \* the open or remove_file the actor awaits: "-" (none),
                \* "pending" (handed to the blocking pool), "ok", "err"
    writing,    \* blob id -> the bytes of the write of that file in flight
                \* on the blocking pool
    werr,       \* the last write of the file being captured failed and its
                \* error has not been returned yet
    buf         \* handle_update's `bytes`: the chunk write_all is writing

vars == <<inbox, closed, sent, must_exit, pc, msg, file_len, file_id, files,
          nextBlob, tasks, store, calls, replies, blobOf, ret, faults, fsop,
          writing, werr, buf>>

\* The state of the file operations of the capture.
io == <<fsop, writing, werr, buf>>

Rids == 1..MaxReqs

Init ==
    /\ inbox = << >>
    /\ closed = FALSE
    /\ sent = 0
    /\ must_exit = FALSE
    /\ pc = "recv"
    /\ msg = NoMsg
    /\ file_len = 0
    /\ file_id = 0
    /\ files = << >>
    /\ nextBlob = 1
    /\ tasks = << >>
    /\ store = [u \in Collections |-> EmptyLog]
    /\ calls = << >>
    /\ replies = [r \in Rids |-> << >>]
    /\ blobOf = [r \in Rids |-> 0]
    /\ ret = [r \in Rids |-> "open"]
    /\ faults = 0
    /\ fsop = "-"
    /\ writing = << >>
    /\ werr = FALSE
    /\ buf = << >>

\* ------------------------------------------------------------------------
\* Helpers on the state

PutFile(fs, id, content) ==
    [i \in DOMAIN fs \cup {id} |-> IF i = id THEN content ELSE fs[i]]
RemoveFiles(fs, ids) == [i \in DOMAIN fs \ ids |-> fs[i]]

\* Mutant: the chunk is written at the start of the file.
WriteAllAtStart(content, bytes) == bytes \o content
\* file.write_all(bytes): the content of the file afterwards.
WriteAll(content, bytes) == content \o bytes

\* A task of the worker pool.  stage: "validate" (the payload check of
\* handle_update), "ready" (about to call the store), "incall" (inside the
\* store), "done".  ran: the file operations of the validation.
Task(stage, op, uuid, meta, file, id) ==
    [stage |-> stage, op |-> op, uuid |-> uuid, meta |-> meta, file |-> file,
     id |-> id, result |-> Pending, ran |-> << >>]
Spawn(ts, rid, t) == [r \in DOMAIN ts \cup {rid} |-> IF r = rid THEN t ELSE ts[r]]

\* Mutant: the handler does not wait for the task it spawned.
TaskFinishedNoWait(t) == TRUE
\* A JoinHandle resolves when its task has finished.
TaskFinished(t) == t.stage = "done"

\* A call into the store.  ctx: "pool" inside a spawn_blocking task, "actor"
\* on the actor's own task.  st: "running", "ok", "err".  id: the sequence id
\* the store assigned (register) or was asked for (meta).
Call(rid, op, uuid, ctx, id) ==
    [rid |-> rid, op |-> op, uuid |-> uuid, ctx |-> ctx, st |-> "running",
     id |-> id]
EndCall(cs, rid, st, id) ==
    [i \in 1..Len(cs) |->
        IF cs[i].rid = rid /\ cs[i].st = "running"
        THEN [cs[i] EXCEPT !.st = st, !.id = id] ELSE cs[i]]

\* Mutant: the result is dropped instead of sent.
SendReplyDropped(rs, res) == rs
\* ret.send(result) on the reply channel whose values so far are rs.
SendReply(rs, res) == Append(rs, res)
\* A send on a channel whose receiver is dropped returns the value as an
\* error; the channel is consumed either way.
SendOn(ch) == IF ch = "dropped" THEN "lost" ELSE ch
Reply(res) ==
    /\ replies' = [replies EXCEPT ![msg.rid] = SendReply(@, res)]
    /\ ret' = [ret EXCEPT ![msg.rid] = SendOn(@)]

\* Mutant: a failed send ends the loop.
AfterSendStopOnError(ch) == IF ch = "dropped" THEN "exited" ELSE "recv"
\* `let _ = ret.send(..)`: the outcome of the send is discarded and the loop
\* goes on to its next receive.
AfterSend(ch) == "recv"

\* Mutant: the flag is not looked at.
ShouldExitNever(flag) == FALSE
\* self.must_exit.load(Relaxed), as the `if` of run reads it.
ShouldExit(flag) == flag

\* Mutant: the end of the inbox is not acted upon.
InboxClosedIgnored(m) == FALSE
\* The `None => break` arm of the match: recv() reported the inbox closed.
InboxClosed(m) == m.kind = "None"

\* Mutant: the newest message is received first.
RecvIndexNewest(q) == Len(q)
\* inbox.recv(): the position in the queue of the message it returns.
RecvIndex(q) == 1
Without(q, i) == SubSeq(q, 1, i - 1) \o SubSeq(q, i + 1, Len(q))

\* Mutant: the actor numbers the update itself, by the request.
EnqueuedOwnId(by, id) == OkRes(by, "Enqueued", by, << >>)
\* UpdateStatus::Enqueued around the id register_update returned.
Enqueued(by, id) == OkRes(by, "Enqueued", id, << >>)

\* Mutant: an absent record is answered with a placeholder status.
MetaResultPlaceholder(by, found, id) == OkRes(by, "Status", id, << >>)
\* store.meta(uuid, id)?.ok_or(UpdateError::UnexistingUpdate(id)): the
\* record's status when the store holds it, otherwise the error with the id.
MetaResult(by, found, id) ==
    IF found THEN OkRes(by, "Status", id, << >>)
    ELSE ErrRes(by, "UnexistingUpdate", id)

\* Mutant: a failed registration is tried again.
AfterRegisterRetry(ok) == IF ok THEN "done" ELSE "ready"
\* The stage of the task after register_update returned: the closure ends
\* with the outcome, whatever it is.
AfterRegister(ok) == "done"

\* ------------------------------------------------------------------------
\* The callers and the shutdown flag

\* The requests a caller may send, given the collections, the (meta, stream)
\* pairs of the updates and the ids asked for; rid is filled in when sent.
Requests(colls, payloads, ids) ==
    { Msg(0, "Update", u, p[1], p[2], 0) : u \in colls, p \in payloads }
      \cup { Msg(0, k, u, "-", << >>, 0) :
          k \in {"ListUpdates", "Delete"}, u \in colls }
      \cup { Msg(0, "GetUpdate", u, "-", << >>, i) : u \in colls, i \in ids }
      \cup { Msg(0, k, "-", "-", << >>, 0) :
          k \in {"Snapshot", "Dump", "GetInfo"} }

\* One failure of the environment more, while the bound allows it.
Fault(n) == faults + n <= MaxFaults /\ faults' = faults + n

\* A caller sends a request; a send fails once the actor has dropped the
\* receiver.
Send(menu, quota) ==
    /\ sent < quota
    /\ ~closed
    /\ pc # "exited"
    /\ \E m \in menu : inbox' = Append(inbox, [m EXCEPT !.rid = sent + 1])
    /\ sent' = sent + 1
    /\ UNCHANGED <<closed, must_exit, pc, msg, file_len, file_id, io, files,
                   nextBlob, tasks, store, calls, replies, ret, blobOf, faults>>

\* The last Sender of the inbox is dropped.
Close ==
    /\ ~closed
    /\ closed' = TRUE
    /\ UNCHANGED <<inbox, sent, must_exit, pc, msg, file_len, file_id, io, files,
                   nextBlob, tasks, store, calls, replies, ret, blobOf, faults>>

\* The caller of request r drops the receiver of its reply channel before a
\* value was sent on it.
DropReceiver(r) ==
    /\ r \in 1..sent
    /\ ret[r] = "open"
    /\ replies[r] = << >>
    /\ ret' = [ret EXCEPT ![r] = "dropped"]
    /\ UNCHANGED <<inbox, closed, sent, must_exit, pc, msg, file_len, file_id, io,
                   files, nextBlob, tasks, store, calls, replies, blobOf,
                   faults>>

\* The update store sets the flag it shares with the actor.
SetMustExit ==
    /\ ~must_exit
    /\ must_exit' = TRUE
    /\ UNCHANGED <<inbox, closed, sent, pc, msg, file_len, file_id, io, files,
                   nextBlob, tasks, store, calls, replies, ret, blobOf, faults>>

\* ------------------------------------------------------------------------
\* UpdateActor::run

\* let msg = self.inbox.recv().await
Recv ==
    /\ pc = "recv"
    /\ \/ /\ inbox # << >>
          /\ msg' = inbox[RecvIndex(inbox)]
          /\ inbox' = Without(inbox, RecvIndex(inbox))
       \/ /\ inbox = << >>
          /\ closed
          /\ msg' = NoMsg
          /\ inbox' = inbox
    /\ pc' = "check"
    /\ UNCHANGED <<closed, sent, must_exit, file_len, file_id, io, files,
                   nextBlob, tasks, store, calls, replies, ret, blobOf, faults>>

\* if must_exit.load() { break } ... None => break.  The receiver and the
\* message in hand are dropped without a reply.
Exit ==
    /\ pc = "check"
    /\ ShouldExit(must_exit) \/ InboxClosed(msg)
    /\ pc' = "exited"
    /\ UNCHANGED <<inbox, closed, sent, must_exit, msg, file_len, file_id, io,
                   files, nextBlob, tasks, store, calls, replies, ret, blobOf,
                   faults>>

\* The flag read clear and the message is of the given kind.
Dispatch(kind) ==
    /\ pc = "check"
    /\ ~ShouldExit(must_exit)
    /\ msg.kind = kind

\* Mutant: every kind of update is captured.
CarriesPayloadAlways(meta) == TRUE
\* `match meta`: the first arm, DocumentsAddition { .. } | DeleteDocuments.
CarriesPayload(meta) == meta \in PayloadMetas

\* handle_update, a payload-carrying meta: the blob id is generated and the
\* open of the file is handed to the blocking pool (actor.rs:110-119).
HandleUpdateOpen ==
    /\ Dispatch("Update")
    /\ CarriesPayload(msg.meta)
    /\ nextBlob' = nextBlob + 1
    /\ blobOf' = [blobOf EXCEPT ![msg.rid] = nextBlob]
    /\ file_id' = nextBlob
    /\ fsop' = "pending"
    /\ pc' = "open"
    /\ UNCHANGED <<inbox, closed, sent, must_exit, msg, file_len, files,
                   tasks, store, calls, replies, ret, faults, writing, werr,
                   buf>>

\* `.open(&path).await` returns (actor.rs:119): the capture starts with
\* file_len = 0, or handle_update returns the error of the open.
OpenReturn ==
    /\ pc = "open"
    /\ fsop # "pending"
    /\ fsop' = "-"
    /\ \/ /\ fsop = "ok"
          /\ file_len' = 0
          /\ werr' = FALSE
          /\ pc' = "chunk"
          /\ UNCHANGED <<replies, ret>>
       \/ /\ fsop = "err"
          /\ Reply(ErrRes(msg.rid, "Io", 0))
          /\ pc' = AfterSend(ret[msg.rid])
          /\ UNCHANGED <<file_len, werr>>
    /\ UNCHANGED <<inbox, closed, sent, must_exit, msg, file_id, files,
                   nextBlob, tasks, store, calls, blobOf, faults, writing,
                   buf>>

\* handle_update, any other meta: file_path is None and the closure is
\* spawned at once (actor.rs:138-143).
HandleUpdateNoPayload ==
    /\ Dispatch("Update")
    /\ ~CarriesPayload(msg.meta)
    /\ tasks' = Spawn(tasks, msg.rid,
                      Task("validate", "register", msg.uuid, msg.meta, 0, 0))
    /\ pc' = "await"
    /\ UNCHANGED <<inbox, closed, sent, must_exit, msg, file_len, file_id, io,
                   files, nextBlob, store, calls, replies, ret, blobOf, faults>>

\* Mutant: a chunk that failed is taken as a chunk without bytes.
ChunkFailsNever(c) == FALSE
\* `let bytes = bytes?`: the chunk received is an Err.
ChunkFails(c) == ~c.ok

\* `while let Some(bytes) = payload.recv().await` returns a chunk
\* (actor.rs:122-124): an Err ends handle_update; otherwise file_len grows
\* and write_all is entered.  write_all of no bytes returns at once.
CaptureChunk ==
    /\ pc = "chunk"
    /\ msg.data # << >>
    /\ LET c == Head(msg.data) IN
       \/ /\ ChunkFails(c)
          /\ Reply(ErrRes(msg.rid, "Transport", 0))
          /\ pc' = AfterSend(ret[msg.rid])
          /\ UNCHANGED <<msg, file_len, buf>>
       \/ /\ ~ChunkFails(c)
          /\ file_len' = file_len + Len(c.bytes)
          /\ msg' = [msg EXCEPT !.data = Tail(@)]
          /\ buf' = c.bytes
          /\ pc' = IF c.bytes = << >> THEN "chunk" ELSE "write"
          /\ UNCHANGED <<replies, ret>>
    /\ UNCHANGED <<inbox, closed, sent, must_exit, file_id, files, nextBlob,
                   tasks, store, calls, blobOf, faults, fsop, writing, werr>>

\* tokio::fs::File hands at most max_buf_size bytes (2 MiB) to one write of
\* the blocking pool.  Lengths are scaled down with the tokens: a chunk of
\* more than MaxBufSize tokens stands for a chunk above that size.
MaxBufSize == 2
Min(a, b) == IF a <= b THEN a ELSE b

\* `file.write_all(bytes.as_ref()).await?` (actor.rs:125) on a
\* tokio::fs::File, one turn of its loop: it waits for the write in flight,
\* returns the error of that write if it failed, and otherwise hands the
\* next bytes of the chunk, at most MaxBufSize of them, to the blocking
\* pool.  With the last bytes handed over it returns Ok, before they are in
\* the file; a longer chunk takes several turns, so that write_all waits
\* for every write of the chunk but the last.
WriteChunk ==
    /\ pc = "write"
    /\ file_id \notin DOMAIN writing
    /\ \/ /\ ~werr
          /\ LET n == Min(Len(buf), MaxBufSize) IN
             /\ writing' = PutFile(writing, file_id, SubSeq(buf, 1, n))
             /\ buf' = SubSeq(buf, n + 1, Len(buf))
             /\ pc' = IF n = Len(buf) THEN "chunk" ELSE "write"
          /\ UNCHANGED <<replies, ret>>
       \/ /\ werr
          /\ Reply(ErrRes(msg.rid, "Io", 0))
          /\ pc' = AfterSend(ret[msg.rid])
          /\ buf' = << >>
          /\ UNCHANGED writing
    /\ UNCHANGED <<inbox, closed, sent, must_exit, msg, file_len, file_id,
                   files, nextBlob, tasks, store, calls, blobOf, faults, fsop,
                   werr>>

\* Mutant: the file is kept whatever its length.
KeepsBlobAlways(len) == TRUE
\* `if file_len != 0`: the captured payload is a blob, not "empty".
KeepsBlob(len) == len # 0

\* The stream has ended, payload.recv() returned None (actor.rs:122, 128):
\* the blob is flushed, or the removal of the empty file is handed to the
\* blocking pool.
CaptureEnd ==
    /\ pc = "chunk"
    /\ msg.data = << >>
    /\ \/ /\ KeepsBlob(file_len)
          /\ pc' = "flush"
          /\ UNCHANGED fsop
       \/ /\ ~KeepsBlob(file_len)
          /\ pc' = "remove"
          /\ fsop' = "pending"
    /\ UNCHANGED <<inbox, closed, sent, must_exit, msg, file_len, file_id,
                   files, nextBlob, tasks, store, calls, replies, ret, blobOf,
                   faults, writing, werr, buf>>

\* `file.flush().await?` and `file.into_std().await` return
\* (actor.rs:129-131): both wait for the write in flight, and flush returns
\* its error if it failed; then the closure is spawned with the blob
\* (actor.rs:143).
FlushReturn ==
    /\ pc = "flush"
    /\ file_id \notin DOMAIN writing
    /\ \/ /\ ~werr
          /\ tasks' = Spawn(tasks, msg.rid,
                 Task("validate", "register", msg.uuid, msg.meta, file_id, 0))
          /\ pc' = "await"
          /\ UNCHANGED <<replies, ret>>
       \/ /\ werr
          /\ Reply(ErrRes(msg.rid, "Io", 0))
          /\ pc' = AfterSend(ret[msg.rid])
          /\ UNCHANGED tasks
    /\ UNCHANGED <<inbox, closed, sent, must_exit, msg, file_len, file_id,
                   files, nextBlob, store, calls, blobOf, faults, io>>

\* `fs::remove_file(&path).await?` returns (actor.rs:134): the closure is
\* spawned without a blob (actor.rs:135-143), or handle_update returns the
\* error of the removal.
RemoveReturn ==
    /\ pc = "remove"
    /\ fsop # "pending"
    /\ fsop' = "-"
    /\ \/ /\ fsop = "ok"
          /\ tasks' = Spawn(tasks, msg.rid,
                 Task("validate", "register", msg.uuid, msg.meta, 0, 0))
          /\ pc' = "await"
          /\ UNCHANGED <<replies, ret>>
       \/ /\ fsop = "err"
          /\ Reply(ErrRes(msg.rid, "Io", 0))
          /\ pc' = AfterSend(ret[msg.rid])
          /\ UNCHANGED tasks
    /\ UNCHANGED <<inbox, closed, sent, must_exit, msg, file_len, file_id,
                   files, nextBlob, store, calls, blobOf, faults, writing,
                   werr, buf>>

\* Mutant: handle_delete only lists the collection.
StoreOpDeleteLists(kind) ==
    CASE kind = "ListUpdates" -> "list"
      [] kind = "Delete" -> "list"
      [] kind = "Snapshot" -> "snapshot"
      [] kind = "Dump" -> "dump"
      [] kind = "GetInfo" -> "get_info"
      [] kind = "GetUpdate" -> "meta"
      [] OTHER -> "register"
\* handle_list_updates, handle_delete, handle_snapshot, handle_dump,
\* handle_get_info: the store call is spawned on the worker pool.
StoreOp(kind) ==
    CASE kind = "ListUpdates" -> "list"
      [] kind = "Delete" -> "delete_all"
      [] kind = "Snapshot" -> "snapshot"
      [] kind = "Dump" -> "dump"
      [] kind = "GetInfo" -> "get_info"
      [] kind = "GetUpdate" -> "meta"
      [] OTHER -> "register"
HandleSpawn(kind) ==
    /\ Dispatch(kind)
    /\ tasks' = Spawn(tasks, msg.rid,
                      Task("ready", StoreOp(kind), msg.uuid, "-", 0, 0))
    /\ pc' = "await"
    /\ UNCHANGED <<inbox, closed, sent, must_exit, msg, file_len, file_id, io,
                   files, nextBlob, store, calls, replies, ret, blobOf, faults>>
HandleListUpdates == HandleSpawn("ListUpdates")
HandleDelete == HandleSpawn("Delete")
HandleSnapshot == HandleSpawn("Snapshot")
HandleDump == HandleSpawn("Dump")
HandleGetInfo == HandleSpawn("GetInfo")

\* handle_get_update: store.meta(uuid, id) is called by the actor itself
\* (actor.rs:183-185).
HandleGetUpdate ==
    /\ Dispatch("GetUpdate")
    /\ calls' = Append(calls, Call(msg.rid, "meta", msg.uuid, "actor", msg.id))
    /\ pc' = "meta"
    /\ UNCHANGED <<inbox, closed, sent, must_exit, msg, file_len, file_id, io,
                   files, nextBlob, tasks, store, replies, ret, blobOf, faults>>

\* store.meta returns: the status, UnexistingUpdate(id) or the store's error.
GetUpdateReturn ==
    /\ pc = "meta"
    /\ \/ /\ calls' = EndCall(calls, msg.rid, "ok", msg.id)
          /\ Reply(MetaResult(msg.rid, HasUpdate(store, msg.uuid, msg.id),
                              msg.id))
          /\ UNCHANGED faults
       \/ /\ Fault(1)
          /\ calls' = EndCall(calls, msg.rid, "err", msg.id)
          /\ Reply(ErrRes(msg.rid, "Log", 0))
    /\ pc' = AfterSend(ret[msg.rid])
    /\ UNCHANGED <<inbox, closed, sent, must_exit, msg, file_len, file_id, io,
                   files, nextBlob, tasks, store, blobOf>>

\* Mutant: with the flag set, the result is dropped and the loop left.
JoinAndReplyUnlessFlag ==
    /\ pc = "await"
    /\ TaskFinished(tasks[msg.rid])
    /\ IF must_exit
       THEN pc' = "exited" /\ UNCHANGED <<replies, ret>>
       ELSE Reply(tasks[msg.rid].result) /\ pc' = AfterSend(ret[msg.rid])
    /\ UNCHANGED <<inbox, closed, sent, must_exit, msg, file_len, file_id, io,
                   files, nextBlob, tasks, store, calls, blobOf, faults>>

\* The JoinHandle of the request's task resolves and the handler's result is
\* sent: `let _ = ret.send(self.handle_...(..).await)`.
JoinAndReply ==
    /\ pc = "await"
    /\ TaskFinished(tasks[msg.rid])
    /\ Reply(tasks[msg.rid].result)
    /\ pc' = AfterSend(ret[msg.rid])
    /\ UNCHANGED <<inbox, closed, sent, must_exit, msg, file_len, file_id, io,
                   files, nextBlob, tasks, store, calls, blobOf, faults>>

\* ------------------------------------------------------------------------
\* The worker pool: the closures given to spawn_blocking

SetTask(r, t) == tasks' = [tasks EXCEPT ![r] = t]
Failures(flags) == Cardinality({ i \in 1..Len(flags) : ~flags[i] })

\* The payload check of the closure of handle_update (actor.rs:147-162).
\* The blob's handle is where the capture left it: at the end of the file.
TaskValidate(r) ==
    /\ r \in DOMAIN tasks
    /\ tasks[r].stage = "validate"
    /\ LET t == tasks[r] IN
       IF t.file = 0
       THEN SetTask(r, [t EXCEPT !.stage = "ready"]) /\ UNCHANGED faults
       ELSE \E seek1, read1, seek2, read2 \in BOOLEAN :
              LET v == Validate(files[t.file], Len(files[t.file]),
                                seek1, read1, seek2, read2)
              IN  /\ v.failed = Failures(<<seek1, read1, seek2, read2>>)
                  /\ Fault(v.failed)
                  /\ IF v.ok
                     THEN SetTask(r, [t EXCEPT !.stage = "ready",
                                         !.ran = v.ran])
                     ELSE SetTask(r, [t EXCEPT !.stage = "done", !.ran = v.ran,
                                         !.result = ErrRes(r, v.kind, v.at)])
    /\ UNCHANGED <<inbox, closed, sent, must_exit, pc, msg, file_len, file_id, io,
                   files, nextBlob, store, calls, replies, ret, blobOf>>

\* The blocking pool runs the open of the file (actor.rs:114-119): the file
\* is created empty, or the open fails.
FsOpen ==
    /\ pc = "open"
    /\ fsop = "pending"
    /\ \/ /\ files' = PutFile(files, file_id, << >>)
          /\ fsop' = "ok"
          /\ UNCHANGED faults
       \/ /\ Fault(1)
          /\ fsop' = "err"
          /\ UNCHANGED files
    /\ UNCHANGED <<inbox, closed, sent, must_exit, pc, msg, file_len, file_id,
                   nextBlob, tasks, store, calls, replies, ret, blobOf,
                   writing, werr, buf>>

\* The blocking pool runs the removal of the empty file (actor.rs:134).
FsRemove ==
    /\ pc = "remove"
    /\ fsop = "pending"
    /\ \/ /\ files' = RemoveFiles(files, {file_id})
          /\ fsop' = "ok"
          /\ UNCHANGED faults
       \/ /\ Fault(1)
          /\ fsop' = "err"
          /\ UNCHANGED files
    /\ UNCHANGED <<inbox, closed, sent, must_exit, pc, msg, file_len, file_id,
                   nextBlob, tasks, store, calls, replies, ret, blobOf,
                   writing, werr, buf>>

\* The handle of file f is still held by handle_update.
Capturing(f) == pc \in {"chunk", "write", "flush"} /\ file_id = f
\* The blocking pool runs the write in flight of file f (actor.rs:125): the
\* bytes get into the file, or the write fails, having written none or only
\* the first of them, and the error is kept for the next write_all or flush
\* of the handle, if it is still held.  The write goes on when handle_update
\* has returned meanwhile.
WriteBehind(f) ==
    /\ f \in DOMAIN writing
    /\ writing' = RemoveFiles(writing, {f})
    /\ \/ /\ files' = [files EXCEPT ![f] = WriteAll(@, writing[f])]
          /\ UNCHANGED <<werr, faults>>
       \/ /\ Fault(1)
          /\ werr' = IF Capturing(f) THEN TRUE ELSE werr
          /\ \E n \in 0..(Len(writing[f]) - 1) :
                files' = [files EXCEPT
                             ![f] = WriteAll(@, SubSeq(writing[f], 1, n))]
    /\ UNCHANGED <<inbox, closed, sent, must_exit, pc, msg, file_len, file_id,
                   nextBlob, tasks, store, calls, replies, ret, blobOf, fsop,
                   buf>>

\* The closure enters the store.
TaskCall(r) ==
    /\ r \in DOMAIN tasks
    /\ tasks[r].stage = "ready"
    /\ SetTask(r, [tasks[r] EXCEPT !.stage = "incall"])
    /\ calls' = Append(calls, Call(r, tasks[r].op, tasks[r].uuid, "pool", 0))
    /\ UNCHANGED <<inbox, closed, sent, must_exit, pc, msg, file_len, file_id, io,
                   files, nextBlob, store, replies, ret, blobOf, faults>>

\* The store call returns, with its effect on the store, or with an error
\* and no effect.
TaskReturn(r) ==
    /\ r \in DOMAIN tasks
    /\ tasks[r].stage = "incall"
    /\ LET t == tasks[r] IN
       \/ /\ t.op = "register"
          /\ store' = RegisterUpdate(store, t.uuid, t.meta, t.file)
          /\ calls' = EndCall(calls, r, "ok", NextUpdateId(store, t.uuid))
          /\ SetTask(r, [t EXCEPT !.stage = AfterRegister(TRUE),
                           !.result = Enqueued(r, NextUpdateId(store, t.uuid))])
          /\ UNCHANGED <<files, faults>>
       \/ /\ t.op = "list"
          /\ calls' = EndCall(calls, r, "ok", 0)
          /\ SetTask(r, [t EXCEPT !.stage = "done",
                           !.result = OkRes(r, "List", 0, ListIds(store, t.uuid))])
          /\ UNCHANGED <<store, files, faults>>
       \/ /\ t.op = "delete_all"
          /\ store' = DeleteAll(store, t.uuid)
          /\ files' = RemoveFiles(files, BlobsOf(store, t.uuid))
          /\ calls' = EndCall(calls, r, "ok", 0)
          /\ SetTask(r, [t EXCEPT !.stage = "done",
                           !.result = OkRes(r, "Unit", 0, << >>)])
          /\ UNCHANGED faults
       \/ /\ t.op \in {"snapshot", "dump"}
          /\ calls' = EndCall(calls, r, "ok", 0)
          /\ SetTask(r, [t EXCEPT !.stage = "done",
                           !.result = OkRes(r, "Unit", 0, << >>)])
          /\ UNCHANGED <<store, files, faults>>
       \/ /\ t.op = "get_info"
          /\ calls' = EndCall(calls, r, "ok", 0)
          /\ SetTask(r, [t EXCEPT !.stage = "done",
                           !.result = OkRes(r, "Info", 0, << >>)])
          /\ UNCHANGED <<store, files, faults>>
       \/ /\ Fault(1)
          /\ calls' = EndCall(calls, r, "err", 0)
          /\ SetTask(r, [t EXCEPT
                 !.stage = IF t.op = "register" THEN AfterRegister(FALSE)
                           ELSE "done",
                 !.result = ErrRes(r, "Log", 0)])
          /\ UNCHANGED <<store, files>>
    /\ UNCHANGED <<inbox, closed, sent, must_exit, pc, msg, file_len, file_id, io,
                   nextBlob, replies, ret, blobOf>>

\* The task panics, or is cancelled before it ran: its JoinHandle resolves
\* to a JoinError.  A call it was in ends without effect.
TaskPanic(r) ==
    /\ r \in DOMAIN tasks
    /\ tasks[r].stage \in {"validate", "ready", "incall"}
    /\ Fault(1)
    /\ SetTask(r, [tasks[r] EXCEPT !.stage = "done",
                                  !.result = ErrRes(r, "Internal", 0)])
    /\ calls' = EndCall(calls, r, "err", 0)
    /\ UNCHANGED <<inbox, closed, sent, must_exit, pc, msg, file_len, file_id, io,
                   files, nextBlob, store, replies, ret, blobOf>>

\* ------------------------------------------------------------------------
\* Specifications

ActorNext ==
    \/ Recv
    \/ Exit
    \/ HandleUpdateOpen
    \/ HandleUpdateNoPayload
    \/ OpenReturn
    \/ CaptureChunk
    \/ WriteChunk
    \/ CaptureEnd
    \/ FlushReturn
    \/ RemoveReturn
    \/ HandleListUpdates
    \/ HandleGetUpdate
    \/ GetUpdateReturn
    \/ HandleDelete
    \/ HandleSnapshot
    \/ HandleDump
    \/ HandleGetInfo
    \/ JoinAndReply

Blobs == 1..MaxReqs
PoolNext ==
    \/ FsOpen
    \/ FsRemove
    \/ \E f \in Blobs : WriteBehind(f)
    \/ \E r \in Rids : TaskValidate(r)
    \/ \E r \in Rids : TaskCall(r)
    \/ \E r \in Rids : TaskReturn(r)
    \/ \E r \in Rids : TaskPanic(r)

\* Up to MaxReqs requests: every kind of request for collection c1, with the
\* basic payloads, and a well-formed documents addition for c2.
BasicMenu ==
    Requests({"c1"}, BasicPayloads, {1})
      \cup { Msg(0, "Update", "c2", "DocumentsAddition", ValidStream, 0) }
SendBasic == Send(BasicMenu, MaxReqs)

Next ==
    \/ SendBasic
    \/ Close
    \/ SetMustExit
    \/ ActorNext
    \/ PoolNext

Spec == Init /\ [][Next]_vars

\* One request, an update with any of the rich payloads among them.
SendRich == Send(Requests(Collections, RichPayloads, {1, 2}), 1)

PayloadNext ==
    \/ SendRich
    \/ Close
    \/ SetMustExit
    \/ ActorNext
    \/ PoolNext

PayloadSpec == Init /\ [][PayloadNext]_vars

\* The runtime polls the actor whenever it can make a step (a message or the
\* closure of the inbox, a chunk or the end of the payload stream, a finished
\* task), and the blocking pool runs every closure it was given.
FairReqs == MaxReqs - 1
SendFewer == Send(BasicMenu, FairReqs)
FairNext ==
    \/ SendFewer
    \/ Close
    \/ SetMustExit
    \/ ActorNext
    \/ PoolNext
FairSpec ==
    Init /\ [][FairNext]_vars /\ WF_vars(ActorNext) /\ WF_vars(PoolNext)

\* Callers that may give up on a request: the receiver of a reply channel
\* can be dropped at any time before the reply is sent.
Drop == \E r \in Rids : DropReceiver(r)
CancelNext ==
    \/ SendFewer
    \/ Close
    \/ SetMustExit
    \/ Drop
    \/ ActorNext
    \/ PoolNext
CancelSpec ==
    Init /\ [][CancelNext]_vars /\ WF_vars(ActorNext) /\ WF_vars(PoolNext)

\* ------------------------------------------------------------------------
\* Properties

CallIdx == 1..Len(calls)
\* The positions of the actor inside handle_update's capture, and inside any
\* handler.
CapturePcs == {"open", "chunk", "write", "flush", "remove"}
HandlerPcs == CapturePcs \cup {"await", "meta"}
\* The files of update_files change in a step at most by a write handed to
\* the blocking pool earlier getting into its file.
FilesKept ==
    \/ files' = files
    \/ /\ DOMAIN files' = DOMAIN files
       /\ \E f \in DOMAIN writing :
             /\ f \notin DOMAIN writing'
             /\ \A g \in DOMAIN files \ {f} : files'[g] = files[g]
IsPrefix(a, b) == Len(a) <= Len(b) /\ a = SubSeq(b, 1, Len(a))
Replied(r) == replies[r] # << >>
ReplyOf(r) == replies[r][1]

\* The last successful delete_all of collection u before call i (0: none),
\* and the ids of the successful registrations of u since then.
LastDelete(u, i) ==
    LET ds == { k \in 1..(i - 1) : /\ calls[k].op = "delete_all"
                                   /\ calls[k].uuid = u
                                   /\ calls[k].st = "ok" }
    IN  IF ds = {} THEN 0 ELSE CHOOSE k \in ds : \A l \in ds : l <= k
RegisteredBefore(u, i) ==
    { calls[k].id : k \in { k \in (LastDelete(u, i) + 1)..(i - 1) :
                              /\ calls[k].op = "register"
                              /\ calls[k].uuid = u
                              /\ calls[k].st = "ok" } }
Range(q) == { q[n] : n \in 1..Len(q) }

\* C1: the calls into the update store are made in inbox arrival order, each
\* after the previous one has returned; what a list returns and what the
\* store holds are the registrations made since the last delete_all of the
\* collection in that order (empty right after a delete_all, and a
\* registration after a delete_all is held).
C1_CallsInInboxOrder ==
    /\ \A i, j \in CallIdx :
          i < j => calls[i].rid < calls[j].rid /\ calls[i].st # "running"
    /\ \A i \in CallIdx :
          calls[i].op = "list" /\ calls[i].st = "ok" =>
             LET res == tasks[calls[i].rid].result
             IN  /\ Range(res.list) = RegisteredBefore(calls[i].uuid, i)
                 /\ Len(res.list) = Cardinality(Range(res.list))
    /\ \A u \in Collections :
          Range(ListIds(store, u)) = RegisteredBefore(u, Len(calls) + 1)
C1_Witness ==
    \E i, j, k \in CallIdx :
       /\ i < j /\ j < k
       /\ calls[i].op = "register" /\ calls[i].st = "ok" /\ calls[i].uuid = "c1"
       /\ calls[j].op = "delete_all" /\ calls[j].st = "ok" /\ calls[j].uuid = "c1"
       /\ calls[k].op = "list" /\ calls[k].st = "ok" /\ calls[k].uuid = "c1"
       /\ tasks[calls[k].rid].result.list = << >>

\* C2: at most one call into the update store is running, and while the
\* actor is at its receive, at the flag check or has left the loop, no task
\* it spawned is unfinished: an unfinished task is the task of the request
\* whose handler the actor is awaiting.
C2_OneStoreCallAtATime ==
    /\ Cardinality({ i \in CallIdx : calls[i].st = "running" }) <= 1
    /\ \A r \in DOMAIN tasks :
          tasks[r].stage # "done" => pc = "await" /\ msg.rid = r
C2_Witness ==
    \E i, j \in CallIdx :
       /\ i < j
       /\ calls[i].op = "register" /\ calls[i].st = "ok"
       /\ calls[j].op \in {"snapshot", "dump"} /\ calls[j].st = "running"
       /\ inbox # << >>

CallsOf(r) == { i \in CallIdx : calls[i].rid = r }

\* C3: every request makes at most one call into the update store; an
\* Enqueued reply comes from exactly one successful register call of that
\* request, and an error reply from no register call or from one that
\* failed.
C3_AtMostOneRegistration ==
    \A r \in Rids :
       /\ Cardinality(CallsOf(r)) <= 1
       /\ Replied(r) /\ ReplyOf(r).kind = "Enqueued" =>
             \E i \in CallsOf(r) : /\ calls[i].op = "register"
                                   /\ calls[i].st = "ok"
                                   /\ calls[i].id = ReplyOf(r).id
       /\ Replied(r) /\ ~ReplyOf(r).ok =>
             \A i \in CallsOf(r) :
                calls[i].op = "register" => calls[i].st = "err"
C3_Witness ==
    \E r \in Rids :
       /\ Replied(r) /\ ReplyOf(r).kind = "Log"
       /\ \E i \in CallsOf(r) : calls[i].op = "register" /\ calls[i].st = "err"
       /\ \E q \in Rids : Replied(q) /\ ReplyOf(q).kind = "Enqueued"

\* The update tasks whose captured blob is not well-formed JSON.
FullCheck == <<"seek", "check", "seek", "parse">>
BlobTasks == { r \in DOMAIN tasks : tasks[r].op = "register" /\ tasks[r].file # 0 }
Malformed(r) == r \in BlobTasks /\ JsonError(files[tasks[r].file]) # 0
NotRegistered(r) ==
    /\ tasks[r].stage \in {"validate", "done"}
    /\ \A i \in CallsOf(r) : calls[i].op # "register"
    /\ NextUpdateId(store, tasks[r].uuid) = 1

\* C4 as stated: a submission whose captured payload is malformed is never
\* registered, consumes no sequence id, and is answered with the
\* Invalid-Payload error that carries the diagnostic of the full parse.
C4_MalformedAlwaysInvalidPayload ==
    \A r \in DOMAIN tasks :
       Malformed(r) =>
          /\ NotRegistered(r)
          /\ tasks[r].stage = "done" =>
                /\ tasks[r].result.kind = "InvalidPayload"
                /\ tasks[r].result.id \in {0, SerdeErrorAt(files[tasks[r].file])}

\* C4, amended: a submission whose captured payload is malformed is never
\* registered and consumes no sequence id; its reply is an error: the
\* Invalid-Payload error with the diagnostic of the full parse when both
\* rewinds succeeded and the task did not fail, otherwise the I/O error of
\* the failed rewind or the internal error of the failed task.
C4_MalformedNeverRegistered ==
    \A r \in DOMAIN tasks :
       Malformed(r) =>
          /\ NotRegistered(r)
          /\ tasks[r].stage = "done" =>
                LET res == tasks[r].result IN
                /\ ~res.ok
                /\ res.kind \in {"InvalidPayload", "Io", "Internal"}
                /\ res.kind = "InvalidPayload" <=> tasks[r].ran = FullCheck
                /\ res.kind = "InvalidPayload" =>
                      res.id \in {0, SerdeErrorAt(files[tasks[r].file])}
                /\ res.kind = "Io" =>
                      tasks[r].ran \in {<<"seek">>, <<"seek", "check", "seek">>}
          /\ Replied(r) => ReplyOf(r) = tasks[r].result
C4_Witness ==
    \E r \in DOMAIN tasks :
       /\ Malformed(r)
       /\ Replied(r)
       /\ ReplyOf(r).kind = "InvalidPayload"
       /\ JsonError(files[tasks[r].file]) = Len(files[tasks[r].file]) + 1
       /\ ReplyOf(r).id = Len(files[tasks[r].file])
       /\ Len(files[tasks[r].file]) >= 3

\* C5: after a Submit Update that ended with an error, no blob file made by
\* that submission is left in update_files.
C5_NoBlobLeftAfterError ==
    \A r \in Rids :
       Replied(r) /\ ~ReplyOf(r).ok /\ blobOf[r] # 0 =>
          blobOf[r] \notin DOMAIN files

\* C6: every call into the update store is made inside a worker-pool task,
\* none on the actor's own task.
C6_StoreCallsOnWorkerPool == \A i \in CallIdx : calls[i].ctx = "pool"

\* A request no handler has touched: no reply, no store call, no task, no
\* blob id.
Untouched(m) ==
    /\ replies[m.rid] = << >>
    /\ CallsOf(m.rid) = {}
    /\ m.rid \notin DOMAIN tasks
    /\ blobOf[m.rid] = 0
\* Once the loop has ended, the request in hand and the queued ones are
\* untouched.
DroppedAtExit ==
    pc = "exited" =>
       /\ msg.kind # "None" => Untouched(msg)
       /\ \A n \in 1..Len(inbox) : Untouched(inbox[n])
\* A step from the flag check with the flag set starts no handler.
ExitIfFlagSet ==
    pc = "check" /\ must_exit =>
       /\ pc' \in {"check", "exited"}
       /\ UNCHANGED <<msg, nextBlob, tasks, store, calls, replies, blobOf>>
       /\ FilesKept
\* C7: when the flag is read as set after a receive, the loop ends and the
\* received request and every request still queued get no handler: no
\* capture, no task, no store call, no reply.  From the flag check with the
\* flag set the actor can only leave the loop.
C7_ShutdownDropsRequests == []DroppedAtExit /\ [][ExitIfFlagSet]_vars
C7_Witness ==
    /\ pc = "exited"
    /\ must_exit
    /\ msg.kind = "Update"
    /\ inbox # << >>
    /\ Replied(1)

\* The handler of request r has started and has not returned.
Handling(r) == pc \in HandlerPcs /\ msg.rid = r
AtMostOneReply ==
    \A r \in Rids : Len(replies[r]) <= 1 /\ (Replied(r) => ReplyOf(r).by = r)
\* C8: a reply channel carries at most one value, made by the handler of its
\* own request; and every request whose handler has started (it was
\* dequeued and the flag read clear) eventually has exactly one value sent
\* on its channel.
C8_ExactlyOneReply ==
    /\ []AtMostOneReply
    /\ \A r \in Rids : Handling(r) ~> (Len(replies[r]) = 1)
C8_Witness ==
    /\ Replied(1) /\ ReplyOf(1).kind = "Enqueued"
    /\ Replied(2) /\ ReplyOf(2).kind = "Transport"

\* The bytes of a stream of chunks, in order.
RECURSIVE Concat(_)
Concat(stream) ==
    IF stream = << >> THEN << >>
    ELSE Head(stream).bytes \o Concat(Tail(stream))
AllChunksOk(stream) == \A n \in 1..Len(stream) : stream[n].ok

\* The capture of update m, whose chunks all arrive without error, is over:
\* the closure is spawned.
Captured(m) ==
    /\ m.kind = "Update"
    /\ m.meta \in PayloadMetas
    /\ AllChunksOk(m.stream)
    /\ m.rid \in DOMAIN tasks
\* C9: once the capture of a payload-carrying update whose chunks all arrive
\* without error is over and the closure is spawned: a stream of zero bytes
\* has left no file (the file opened was removed and the closure gets no
\* blob), and any other stream has left a blob whose content is the chunks
\* concatenated in receive order.
C9_CaptureKeepsTheBytes ==
    Captured(msg) =>
       /\ blobOf[msg.rid] # 0
       /\ IF Concat(msg.stream) = << >>
          THEN /\ blobOf[msg.rid] \notin DOMAIN files
               /\ tasks[msg.rid].file = 0
          ELSE /\ blobOf[msg.rid] \in DOMAIN files
               /\ files[blobOf[msg.rid]] = Concat(msg.stream)
               /\ tasks[msg.rid].file = blobOf[msg.rid]
C9_Witness ==
    /\ Captured(msg)
    /\ Len(msg.stream) = 3
    /\ Len(msg.stream[2].bytes) = 0
    /\ blobOf[msg.rid] \in DOMAIN files
    /\ files[blobOf[msg.rid]] = <<"{", "s", ":", "1", "}">>

\* The updates of collection u that were answered Enqueued.
EnqueuedRids(u) ==
    { r \in DOMAIN tasks : /\ tasks[r].op = "register"
                           /\ tasks[r].uuid = u
                           /\ Replied(r)
                           /\ ReplyOf(r).kind = "Enqueued" }
\* C10: the sequence ids of the Enqueued replies to the updates of one
\* collection, taken in request order, go up by exactly one from each to the
\* next, whatever updates failed in between; and the id in a reply is the id
\* the store gave to that request's register call.
C10_SequenceIdsWithoutGaps ==
    \A u \in Collections :
       /\ \A r \in EnqueuedRids(u) :
             \E i \in CallsOf(r) : calls[i].id = ReplyOf(r).id
       /\ \A r1, r2 \in EnqueuedRids(u) :
             r1 < r2 /\ (\A r \in EnqueuedRids(u) : ~(r1 < r /\ r < r2)) =>
                ReplyOf(r2).id = ReplyOf(r1).id + 1
C10_Witness ==
    /\ EnqueuedRids("c1") = {1, 3}
    /\ Replied(2) /\ ReplyOf(2).kind = "InvalidPayload"
    /\ ReplyOf(1).id = 1 /\ ReplyOf(3).id = 2

\* The calls of store.meta that returned, and the requests they answer.
MetaCalls == { i \in CallIdx : calls[i].op = "meta" /\ calls[i].st # "running" }
\* C11: a Get Update whose lookup returned is answered at once, by its own
\* handler: with the Unknown-Update error carrying the id asked for when the
\* collection does not hold a record with that id at that point of the
\* inbox order (never registered, or deleted since), and with the status of
\* the record with that id when it does; a status is never sent for a pair
\* the store does not hold.  A lookup that failed is answered with the
\* store's error.
C11_GetUpdateUnknownOrStatus ==
    \A i \in MetaCalls :
       LET r == calls[i].rid
           held == calls[i].id \in RegisteredBefore(calls[i].uuid, i)
       IN  /\ Len(replies[r]) = 1
           /\ calls[i].st = "ok" /\ ~held =>
                 ReplyOf(r) = ErrRes(r, "UnexistingUpdate", calls[i].id)
           /\ calls[i].st = "ok" /\ held =>
                 ReplyOf(r) = OkRes(r, "Status", calls[i].id, << >>)
           /\ ReplyOf(r).ok => held
           /\ calls[i].st = "err" => ReplyOf(r) = ErrRes(r, "Log", 0)
C11_Witness ==
    \E i, j, k \in CallIdx :
       /\ i < j /\ j < k
       /\ calls[i].op = "meta" /\ calls[i].st = "ok" /\ calls[i].uuid = "c1"
       /\ ReplyOf(calls[i].rid).kind = "UnexistingUpdate"
       /\ ReplyOf(calls[i].rid).id = 1
       /\ calls[j].op = "register" /\ calls[j].st = "ok" /\ calls[j].uuid = "c1"
       /\ calls[k].op = "meta" /\ calls[k].st = "ok" /\ calls[k].uuid = "c1"
       /\ ReplyOf(calls[k].rid).kind = "Status"

\* The delete_all calls of collection u that succeeded.
DeleteCalls(u) ==
    { i \in CallIdx : /\ calls[i].op = "delete_all"
                      /\ calls[i].uuid = u
                      /\ calls[i].st = "ok" }
\* Every delete_all that succeeded, the first of a collection or a later
\* one, is answered without error, and a list of the collection made after
\* it with no registration in between returns no record.
DeletedStaysEmpty ==
    \A u \in Collections : \A i \in DeleteCalls(u) :
       /\ Replied(calls[i].rid) =>
             ReplyOf(calls[i].rid) = OkRes(calls[i].rid, "Unit", 0, << >>)
       /\ \A k \in CallIdx :
             /\ k > i /\ calls[k].op = "list" /\ calls[k].uuid = u
             /\ calls[k].st = "ok" /\ RegisteredBefore(u, k) = {}
             => /\ tasks[calls[k].rid].result.list = << >>
                /\ Replied(calls[k].rid) =>
                      ReplyOf(calls[k].rid) = OkRes(calls[k].rid, "List", 0, << >>)
       /\ RegisteredBefore(u, Len(calls) + 1) = {} => store[u].recs = << >>
\* The step in which a delete_all of collection u returns without error
\* empties u, whether u held records or not, and changes no other
\* collection; and the handler of a Delete All that replies without error
\* leaves its collection empty.
DeleteAllStep ==
    /\ \A i \in CallIdx :
          /\ calls[i].op = "delete_all" /\ calls[i].st = "running"
          /\ calls'[i].st = "ok"
          => /\ store'[calls[i].uuid].recs = << >>
             /\ \A v \in Collections \ {calls[i].uuid} : store'[v] = store[v]
    /\ pc = "await" /\ msg.kind = "Delete" /\ pc' = "recv" =>
          LET res == replies'[msg.rid][1]
          IN  /\ res.ok => res.kind = "Unit" /\ store[msg.uuid].recs = << >>
              /\ ~res.ok => res.kind \in {"Log", "Internal"}
\* C12: Delete All is idempotent.  Two Delete All requests of one collection
\* handled one after the other are both answered without error when the
\* store's delete_all succeeds, the collection lists as empty after the
\* first and after the second, and the records of the other collections
\* are unchanged.
C12_DeleteAllIdempotent == []DeletedStaysEmpty /\ [][DeleteAllStep]_vars
C12_Witness ==
    \E i, j, k \in CallIdx :
       /\ i < j /\ j < k
       /\ calls[i].op = "register" /\ calls[i].st = "ok" /\ calls[i].uuid = "c1"
       /\ j \in DeleteCalls("c1") /\ k \in DeleteCalls("c1")
       /\ Replied(calls[j].rid) /\ ReplyOf(calls[j].rid).ok
       /\ Replied(calls[k].rid) /\ ReplyOf(calls[k].rid).ok
       /\ store["c1"].recs = << >>

\* What the actor and its tasks have done so far.
Work == <<msg, file_len, file_id, nextBlob, tasks, store, calls, replies,
          blobOf, fsop, buf>>
\* The loop has ended with the flag clear: it ended at the receive that
\* reported the inbox closed, when every request sent had been dequeued and
\* answered.
ClosedExit == pc = "exited" /\ ~must_exit
AllDequeuedAtClosedExit ==
    ClosedExit =>
       /\ closed
       /\ InboxClosed(msg)
       /\ inbox = << >>
       /\ \A r \in 1..sent : Len(replies[r]) = 1
\* recv() reports the inbox closed only when every sender is dropped and no
\* request is queued; from then on the actor does nothing but leave the
\* loop, and once it has left it does nothing at all.
NothingAfterClosed ==
    /\ pc = "recv" /\ pc' = "check" /\ InboxClosed(msg') =>
          closed /\ inbox = << >>
    /\ pc = "check" /\ InboxClosed(msg) =>
          pc' \in {"check", "exited"} /\ UNCHANGED Work /\ FilesKept
    /\ pc = "exited" => pc' = "exited" /\ UNCHANGED Work /\ FilesKept
\* C13: once every sender of the inbox is dropped, the loop eventually
\* terminates (the runtime polls the actor and runs its tasks, payload
\* streams are finite); when it terminates on the closed inbox every request
\* queued before has been dequeued and handled, and no request is handled
\* after the receive that reported the inbox closed.
C13_ClosedInboxTerminates ==
    /\ closed ~> (pc = "exited")
    /\ []AllDequeuedAtClosedExit
    /\ [][NothingAfterClosed]_vars
C13_Witness ==
    /\ ClosedExit
    /\ sent = FairReqs
    /\ \A r \in 1..FairReqs : Replied(r)
    /\ ReplyOf(1).kind = "Enqueued"

Queued(r) == \E n \in 1..Len(inbox) : inbox[n].rid = r
\* The loop is left only from the flag check, with the flag set or the inbox
\* reported closed; a handler that has started ends at the next receive,
\* whatever it returns and whether or not its result could be sent.
LeavesOnlyAtCheck ==
    /\ pc # "exited" /\ pc' = "exited" =>
          pc = "check" /\ (must_exit \/ InboxClosed(msg))
    /\ pc \in HandlerPcs => pc' \in HandlerPcs \cup {"recv"}
    /\ \A r \in Rids : Len(replies'[r]) > Len(replies[r]) => pc' = "recv"
\* A handler whose result could not be sent ran to its end all the same: it
\* made its store call unless it failed before (capture, validation or task
\* failure), and a successful result comes from a successful store call.
LostRanToCompletion ==
    \A r \in Rids :
       ret[r] = "lost" =>
          /\ Len(replies[r]) = 1
          /\ \/ CallsOf(r) # {}
             \/ ReplyOf(r).kind \in {"Transport", "Io", "InvalidPayload",
                                     "Internal"}
          /\ ReplyOf(r).ok => \E i \in CallsOf(r) : calls[i].st = "ok"
\* C14: the loop terminates only when the flag is read as set after a
\* receive or when the inbox is closed.  A handler that returns an error and
\* a send that fails because the caller dropped its receiver both lead to
\* the next receive, and a request queued behind is handled in its turn
\* (unless the flag is set first); a receiver dropped while its handler runs
\* does not stop the handler, whose store call and send still happen.
C14_OnlyFlagOrClosedInboxEndsLoop ==
    /\ [][LeavesOnlyAtCheck]_vars
    /\ []LostRanToCompletion
    /\ \A r \in Rids :
          Queued(r) ~> (Len(replies[r]) = 1 \/ (pc = "exited" /\ must_exit))
    /\ \A r \in Rids :
          (Handling(r) /\ ret[r] = "dropped") ~> (ret[r] = "lost")
C14_Witness ==
    /\ ret[1] = "lost" /\ ReplyOf(1).kind = "Enqueued"
    /\ \E i \in CallsOf(1) : calls[i].op = "register" /\ calls[i].st = "ok"
    /\ ret[2] = "open" /\ Replied(2) /\ ReplyOf(2).kind = "Enqueued"
    /\ ReplyOf(2).id = 2

\* The position of the first chunk of a stream that fails (0: none), and the
\* bytes of the chunks before position k.
FirstErr(stream) ==
    IF AllChunksOk(stream) THEN 0
    ELSE CHOOSE k \in 1..Len(stream) :
            ~stream[k].ok /\ \A n \in 1..(k - 1) : stream[n].ok
BytesBefore(stream, k) == Concat(SubSeq(stream, 1, k - 1))
\* The bytes of the write of file f in flight.
InFlight(f) == IF f \in DOMAIN writing THEN writing[f] ELSE << >>
\* The step of the capture at a chunk that failed: the handler returns with
\* that failure; nothing is written, spawned or called.
AbortsAtFailedChunk ==
    pc = "chunk" /\ msg.data # << >> /\ ~Head(msg.data).ok /\ pc' # pc =>
       /\ pc' = "recv"
       /\ replies'[msg.rid] = << ErrRes(msg.rid, "Transport", 0) >>
       /\ UNCHANGED <<msg, files, file_len, tasks, store, calls>>
\* The update in hand was answered with the failure of a chunk: the chunks
\* after the failed one are unread, the file and the write in flight hold
\* bytes of the chunks before it and no more (all of them when no write
\* failed), and the submission has no task (no validation) and no store
\* call.
AbortedAtFirstErr ==
    msg.kind = "Update" /\ msg.meta \in PayloadMetas /\ Replied(msg.rid) =>
       LET r == msg.rid
           k == FirstErr(msg.stream)
       IN  /\ ReplyOf(r).kind = "Transport" =>
                 /\ k # 0
                 /\ msg.data = SubSeq(msg.stream, k, Len(msg.stream))
                 /\ IsPrefix(files[blobOf[r]] \o InFlight(blobOf[r]),
                             BytesBefore(msg.stream, k))
                 /\ faults = 0 =>
                       files[blobOf[r]] \o InFlight(blobOf[r])
                          = BytesBefore(msg.stream, k)
                 /\ r \notin DOMAIN tasks
                 /\ CallsOf(r) = {}
                 /\ NextUpdateId(store, msg.uuid) = 1
           /\ k # 0 => ReplyOf(r).kind \in {"Transport", "Io"}
           /\ k # 0 /\ faults = 0 => ReplyOf(r).kind = "Transport"
\* C15: when receiving a chunk of the payload stream fails, the Submit
\* Update ends at that chunk: no further chunk is received or written, no
\* validation runs, register is never called, and the reply is the failure
\* of that chunk.
C15_ChunkFailureAborts == []AbortedAtFirstErr /\ [][AbortsAtFailedChunk]_vars
C15_Witness ==
    /\ msg.kind = "Update"
    /\ Replied(msg.rid) /\ ReplyOf(msg.rid).kind = "Transport"
    /\ FirstErr(msg.stream) = 2
    /\ Len(msg.stream) = 3 /\ msg.stream[3] = Chunk(<<"]">>)
    /\ files[blobOf[msg.rid]] = << >>
    /\ InFlight(blobOf[msg.rid]) = <<"[">>

\* The request in hand is an update of a kind that carries no payload.
NoPayloadUpdate == msg.kind = "Update" /\ msg.meta \notin PayloadMetas
\* From its dispatch to its reply such a submission has generated no blob
\* id, has no file, and has read nothing of its payload stream.
NothingCaptured ==
    NoPayloadUpdate =>
       /\ blobOf[msg.rid] = 0
       /\ msg.data = msg.stream
       /\ pc \notin CapturePcs
       /\ msg.rid \in DOMAIN tasks => tasks[msg.rid].file = 0
\* No step taken while such a submission is in hand changes the set of files
\* of the blob directory (at most a write of an earlier submission, still
\* in flight, gets into its file), the blob ids given out or the stream.
NoPayloadFrame ==
    NoPayloadUpdate /\ pc \in {"check", "await"} =>
       /\ UNCHANGED <<nextBlob, blobOf, file_id, file_len, msg, fsop, buf>>
       /\ FilesKept
       /\ pc' \notin CapturePcs
\* C16: for a Submit Update whose metadata kind carries no payload the
\* capture is skipped: no blob identifier is generated, no file is created,
\* the payload stream is never read, and the files of the blob directory
\* are the same after the submission as before.
C16_NoPayloadKindSkipsCapture == []NothingCaptured /\ [][NoPayloadFrame]_vars
C16_Witness ==
    /\ NoPayloadUpdate
    /\ Len(Concat(msg.stream)) >= 3
    /\ Replied(msg.rid) /\ ReplyOf(msg.rid).kind = "Enqueued"
    /\ files = << >> /\ nextBlob = 1

\* The capture of the update in hand has yielded no blob: its kind carries
\* no payload, or its stream ended without error after zero bytes; and the
\* closure has been spawned.
NoBlobCaptured ==
    /\ msg.kind = "Update"
    /\ \/ msg.meta \notin PayloadMetas
       \/ AllChunksOk(msg.stream) /\ Concat(msg.stream) = << >>
    /\ msg.rid \in DOMAIN tasks
\* The records the store holds for a registration with sequence id n.
RecsWithId(u, n) ==
    { i \in 1..Len(store[u].recs) : store[u].recs[i].id = n }
\* C17: whenever the capture yields no blob, the closure runs neither the
\* streaming check nor the full parse (no seek either), its only store call
\* is register, made with no blob reference, and the reply is the Enqueued
\* status with the id the store assigned when the store accepts the
\* registration, the store's error when it refuses it, and the internal
\* error when the task itself failed.
C17_NoBlobSkipsValidation ==
    NoBlobCaptured =>
       LET r == msg.rid
           t == tasks[msg.rid]
       IN  /\ t.file = 0
           /\ t.ran = << >>
           /\ t.stage = "done" /\ t.result.kind # "Internal" =>
                 CallsOf(r) # {}
           /\ \A i \in CallsOf(r) :
                 /\ calls[i].op = "register"
                 /\ calls[i].st = "ok" =>
                       /\ t.result = OkRes(r, "Enqueued", calls[i].id, << >>)
                       /\ \A n \in RecsWithId(msg.uuid, calls[i].id) :
                             store[msg.uuid].recs[n].content = 0
                 /\ calls[i].st = "err" => t.result.kind \in {"Log", "Internal"}
           /\ t.stage = "done" =>
                 t.result.kind \in {"Enqueued", "Log", "Internal"}
           /\ t.stage = "done" /\ faults = 0 => t.result.kind = "Enqueued"
           /\ Replied(r) => ReplyOf(r) = t.result
C17_Witness ==
    /\ NoBlobCaptured
    /\ msg.meta = "DocumentsAddition"
    /\ Len(msg.stream) = 2
    /\ blobOf[msg.rid] # 0 /\ files = << >>
    /\ Replied(msg.rid) /\ ReplyOf(msg.rid) = OkRes(msg.rid, "Enqueued", 1, << >>)
    /\ RecsWithId(msg.uuid, 1) # {}

\* The update tasks with a blob whose validation has run, and the shapes the
\* sequence of its file operations can take: each of the two passes comes
\* right after a rewind.
Validated == { r \in BlobTasks : tasks[r].ran # << >> }
WellFormed(r) == JsonError(files[tasks[r].file]) = 0
CheckOnly == <<"seek", "check">>
RanParse(r) == \E n \in 1..Len(tasks[r].ran) : tasks[r].ran[n] = "parse"
RewindsFirst(r) ==
    tasks[r].ran \in {<<"seek">>, CheckOnly, <<"seek", "check", "seek">>,
                      FullCheck}

\* C18 as stated: the blob is rewound before each pass, and every
\* well-formed payload is validated by the streaming check alone: the full
\* parse is never run on it.
C18_WellFormedNeverFullyParsed ==
    \A r \in Validated :
       /\ RewindsFirst(r)
       /\ WellFormed(r) => tasks[r].ran = CheckOnly /\ ~RanParse(r)

\* C18, amended: the blob is rewound before each pass; the full parse runs
\* only after a streaming check that failed, because the payload is not
\* well-formed or because a read of the blob failed, and after a second
\* rewind that succeeded; when no file operation fails, a well-formed
\* payload is validated by the streaming check alone, without the full
\* parse, and a malformed one goes through both passes; a well-formed
\* payload whose streaming check failed on the only failed read passes the
\* full parse.
C18_FullParseOnlyAfterFailedCheck ==
    \A r \in Validated :
       /\ RewindsFirst(r)
       /\ RanParse(r) => ~WellFormed(r) \/ faults > 0
       /\ WellFormed(r) /\ faults = 0 =>
             /\ tasks[r].ran = CheckOnly
             /\ tasks[r].result.kind \in {"pending", "Enqueued"}
       /\ ~WellFormed(r) /\ faults = 0 =>
             /\ tasks[r].ran = FullCheck
             /\ tasks[r].result.kind = "InvalidPayload"
       /\ WellFormed(r) /\ tasks[r].ran = FullCheck /\ faults = 1 =>
             tasks[r].result.kind # "InvalidPayload"
C18_Witness ==
    \E r \in Validated :
       /\ files[tasks[r].file] = <<"{", "s", ":", "1", "}">>
       /\ tasks[r].ran = CheckOnly
       /\ faults = 0
       /\ Replied(r) /\ ReplyOf(r).kind = "Enqueued"

\* What the two passes of the validation of r came to, read off the file
\* operations it ran and its outcome: the streaming check passed (the
\* validation stopped there), or it failed and the full parse succeeded, or
\* both failed.
CheckPassed(r) == tasks[r].ran = CheckOnly
ParseSucceeded(r) ==
    tasks[r].ran = FullCheck /\ tasks[r].result.kind # "InvalidPayload"
BothFailed(r) ==
    tasks[r].ran = FullCheck /\ tasks[r].result.kind = "InvalidPayload"
RegisterCalled(r) == \E i \in CallsOf(r) : calls[i].op = "register"
\* C19: a submission with a non-empty blob is registered exactly when the
\* streaming check passes, or fails and the full parse then succeeds (a
\* task that itself fails aside); it is rejected as invalid only when both
\* the streaming check and the full parse fail.  The streaming check passes
\* only on a well-formed payload, and a streaming check that failed on a
\* read error alone does not prevent the registration.
C19_BothValidatorsDecide ==
    \A r \in Validated :
       LET t == tasks[r] IN
       /\ RegisterCalled(r) => CheckPassed(r) \/ ParseSucceeded(r)
       /\ (CheckPassed(r) \/ ParseSucceeded(r)) /\ t.stage = "done"
             /\ t.result.kind # "Internal" => RegisterCalled(r)
       /\ (CheckPassed(r) \/ ParseSucceeded(r)) => WellFormed(r)
       /\ t.result.kind = "InvalidPayload" =>
             /\ BothFailed(r)
             /\ ~RegisterCalled(r)
             /\ ~WellFormed(r) \/ faults >= 2
       /\ ParseSucceeded(r) /\ faults = 1 /\ t.stage = "done" =>
             t.result.kind = "Enqueued"
C19_Witness ==
    \E r \in Validated :
       /\ ParseSucceeded(r)
       /\ WellFormed(r)
       /\ Len(files[tasks[r].file]) >= 4
       /\ Replied(r) /\ ReplyOf(r).kind = "Enqueued"
       /\ \E i \in CallsOf(r) : calls[i].op = "register" /\ calls[i].st = "ok"

\* The flag is read only at the check after a receive: a handler that has
\* started does not leave the loop, the actor waiting at its receive stays
\* there until a message or the closure of the inbox arrives, and the loop
\* is left only from the check.  The step that sets the flag is not a step
\* of the actor or of its tasks.
FlagOnlyReadAtCheck ==
    /\ pc \in HandlerPcs => pc' # "exited"
    /\ pc = "recv" => pc' \in {"recv", "check"}
    /\ pc = "recv" /\ inbox = << >> /\ ~closed => pc' = "recv"
    /\ must_exit' # must_exit =>
          /\ must_exit'
          /\ UNCHANGED <<pc, inbox, files, writing, werr>>
          /\ UNCHANGED Work
\* A request answered went through its whole handler, flag set or not: it
\* made its store call unless it failed before.
AnsweredRanToCompletion ==
    \A r \in Rids :
       Replied(r) =>
          \/ CallsOf(r) # {} /\ \A i \in CallsOf(r) : calls[i].st # "running"
          \/ ReplyOf(r).kind \in {"Transport", "Io", "InvalidPayload",
                                  "Internal"}
\* C20: the flag does not interrupt a handler that has started, and is not
\* observed while the actor waits.  A handler running when the flag is set
\* still runs to its end and its result is sent; with the flag set and the
\* inbox empty the actor stays at its receive until a message arrives or
\* the inbox is closed; the actor never writes the flag.
C20_FlagDoesNotInterrupt ==
    /\ [][FlagOnlyReadAtCheck]_vars
    /\ []AnsweredRanToCompletion
    /\ \A r \in Rids : (Handling(r) /\ must_exit) ~> (Len(replies[r]) = 1)
C20_Witness ==
    /\ must_exit
    /\ pc = "await"
    /\ msg.kind = "Update"
    /\ tasks[msg.rid].stage = "incall"
    /\ Replied(1) /\ msg.rid = 2

====
